---------------------------- MODULE Spec2Model ----------------------------
(***************************************************************************)
(* A model of streamlit_app.py: the drug-repurposing dashboard.            *)
(*                                                                         *)
(* The program is a Streamlit script.  Every user interaction (a widget    *)
(* change or a button press) re-runs the whole script top to bottom for    *)
(* that session: the sidebar (navigation radio, chat box and its Send      *)
(* handler) first, then the panel of the selected navigation mode.  An     *)
(* action of this model is one such complete run.  The state is what a     *)
(* run leaves behind: the widget values, st.session_state, what the run    *)
(* put on the page, the exception (if any) that ended it, the requests it  *)
(* sent to the Gemini gateway and the files it opened.                     *)
(*                                                                         *)
(* The environment is the artifact store (which files exist, what the      *)
(* performance table holds), fixed at deployment, and the gateway, which   *)
(* on each call either raises or returns a text.                           *)
(***************************************************************************)
EXTENDS Naturals, Sequences, FiniteSets

(***************************************************************************)
(* Bounds of the model.                                                    *)
(***************************************************************************)
\* Gateway calls that return (rather than raise) in one session.
MaxTurns == 2
\* Rows of the performance table drawn in SpecFilter.
MaxRows == 2

(***************************************************************************)
(* The fixed option lists of the widgets.                                  *)
(***************************************************************************)
NavOptions ==
    << "Get Drugs Recommendations", "Explore Knowledge Graph",
       "Model Performance Metrics", "Help" >>

Diseases ==
    << "Dengue", "Chagas", "Malaria", "Yellow Fever", "Leishmaniasis",
       "Filariasis", "Schistosomiasis" >>

Models ==
    << "TransE", "TransR", "TransH", "UM", "DistMult", "RESCAL", "ERMLP" >>

Range(s) == { s[i] : i \in 1..Len(s) }

\* A Python name that the run did not bind, and Python's None.
Undefined == "<undefined>"
None == "<None>"

(***************************************************************************)
(* The inputs the model draws.                                             *)
(***************************************************************************)
\* What the user may type in the chat box (the empty string included).
ChatInputs == { "", "What is DRKG?", "Is aspirin a candidate?" }

\* What the gateway may do on a call: raise, or return a response whose
\* text may be empty.
ResponseTexts == { "", "DRKG is a knowledge graph." }

GatewayOutcomes ==
    { [raises |-> TRUE, text |-> ""] }
        \cup { [raises |-> FALSE, text |-> t] : t \in ResponseTexts }

NotCalled == [raises |-> FALSE, text |-> None]

VARIABLES
    nav,               \* the navigation radio's value
    disease_selection, \* the disease selectbox of the active panel
    model_selection,   \* the model selectbox of the recommendations panel
    input_text,        \* the chat text input
    pressed,           \* the button that is True in the last run ("" if none)
    session_state,     \* st.session_state: a function on the keys set so far
    missing_files,     \* artifact store: the paths that do not exist
    performance_csv,   \* artifact store: rows of performance_metrics.csv
    page,              \* the elements the last run rendered, in order
    error,             \* the unhandled exception that ended the last run
    gateway_calls,     \* the prompts the last run sent to the gateway
    gateway_outcome,   \* what the gateway did in the last run
    opened,            \* the paths the last run tried to open, in order
    performance_file,  \* the DataFrame the last run loaded (or Undefined)
    filtered_data,     \* the filtered DataFrame of the last run (or Undefined)
    send_log           \* history: the Send interactions the gateway answered

vars ==
    << nav, disease_selection, model_selection, input_text, pressed,
       session_state, missing_files, performance_csv, page, error,
       gateway_calls, gateway_outcome, opened, performance_file,
       filtered_data, send_log >>


(***************************************************************************)
(* Page elements.                                                          *)
(***************************************************************************)
StError(msg) == [kind |-> "st.error", text |-> msg]

ChatbotResponse(response) == [kind |-> "chatbot-response", text |-> response]

Title(title) == [kind |-> "title", text |-> title]

Heading(text) == [kind |-> "heading", text |-> text]

CommunicationError == "Error communicating with the Google Gemini API"
NoResponseError == "Failed to get a response from the chatbot"
EmptyInputError == "Please enter a question."

(***************************************************************************)
(* Chat gateway client: get_gemini_response.                               *)
(*                                                                         *)
(* outcome is what text_model.generate_content does if it is called.  The  *)
(* result holds the returned value, the prompts sent and the elements put  *)
(* on the page.  The except clause catches the gateway's exception, shows  *)
(* st.error and returns None; nothing is raised to the caller.             *)
(***************************************************************************)
Truthy(v) == v # None /\ v # ""

\* Mutant: the try/except is missing, the gateway's exception escapes.
get_gemini_response_uncaught(text, outcome) ==
    IF Truthy(text)
    THEN [value |-> IF outcome.raises THEN None ELSE outcome.text,
          calls |-> << text >>,
          page |-> << >>,
          raised |-> outcome.raises]
    ELSE [value |-> None, calls |-> << >>, page |-> << >>, raised |-> FALSE]

\* Mutant: the prompt is the input wrapped in a template.
get_gemini_response_template(text, outcome) ==
    IF Truthy(text)
    THEN [value |-> IF outcome.raises THEN None ELSE outcome.text,
          calls |-> << "Answer as a pharmacologist: " \o text >>,
          page |-> IF outcome.raises
                   THEN << StError(CommunicationError) >> ELSE << >>,
          raised |-> FALSE]
    ELSE [value |-> None, calls |-> << >>, page |-> << >>, raised |-> FALSE]

get_gemini_response(text, outcome) ==
    IF Truthy(text)
    THEN [value |-> IF outcome.raises THEN None ELSE outcome.text,
          calls |-> << text >>,
          page |-> IF outcome.raises
                   THEN << StError(CommunicationError) >> ELSE << >>,
          raised |-> FALSE]
    ELSE [value |-> None, calls |-> << >>, page |-> << >>, raised |-> FALSE]

(***************************************************************************)
(* Session chat log: st.session_state['chat_history'].                     *)
(***************************************************************************)
ChatHistory(ss) ==
    IF "chat_history" \in DOMAIN ss THEN ss["chat_history"] ELSE << >>

\* Mutant: the bot's turn is appended before the user's.
AddToChatHistory_bot_first(ss, text, response) ==
    [k \in {"chat_history"} |->
        ChatHistory(ss) \o << << "Bot", response >>, << "You", text >> >>]

AddToChatHistory(ss, text, response) ==
    [k \in {"chat_history"} |->
        ChatHistory(ss) \o << << "You", text >>, << "Bot", response >> >>]

(***************************************************************************)
(* The sidebar's Send handler, run when the Send button is True.           *)
(***************************************************************************)
SendResult(pg, calls, ss, outcome, raised) ==
    [page |-> pg, calls |-> calls, session_state |-> ss,
     outcome |-> outcome, raised |-> raised]

\* Mutant: the empty-input check of the handler is missing.
SendHandler_unchecked(text, outcome, ss) ==
    LET r == get_gemini_response(text, outcome)
        used == IF r.calls = << >> THEN NotCalled ELSE outcome
    IN  IF Truthy(r.value)
        THEN SendResult(r.page \o << ChatbotResponse(r.value) >>, r.calls,
                        AddToChatHistory(ss, text, r.value), used, r.raised)
        ELSE SendResult(r.page \o << StError(NoResponseError) >>, r.calls,
                        ss, used, r.raised)

\* Mutant: the user's turn is logged before the response is known.
SendHandler_eager(text, outcome, ss) ==
    IF Truthy(text)
    THEN LET r == get_gemini_response(text, outcome)
             mine == [k \in {"chat_history"} |->
                         ChatHistory(ss) \o << << "You", text >> >>]
         IN  IF Truthy(r.value)
             THEN SendResult(r.page \o << ChatbotResponse(r.value) >>,
                             r.calls,
                             [k \in {"chat_history"} |->
                                 ChatHistory(mine) \o << << "Bot", r.value >> >>],
                             outcome, r.raised)
             ELSE SendResult(r.page \o << StError(NoResponseError) >>,
                             r.calls, mine, outcome, r.raised)
    ELSE SendResult(<< StError(EmptyInputError) >>, << >>, ss, NotCalled, FALSE)

SendHandler(text, outcome, ss) ==
    IF Truthy(text)
    THEN LET r == get_gemini_response(text, outcome)
         IN  IF r.raised
             THEN SendResult(r.page, r.calls, ss, outcome, TRUE)
             ELSE IF Truthy(r.value)
             THEN SendResult(r.page \o << ChatbotResponse(r.value) >>,
                             r.calls, AddToChatHistory(ss, text, r.value),
                             outcome, FALSE)
             ELSE SendResult(r.page \o << StError(NoResponseError) >>,
                             r.calls, ss, outcome, FALSE)
    ELSE SendResult(<< StError(EmptyInputError) >>, << >>, ss, NotCalled, FALSE)

\* The sidebar of one run: the handler runs only when Send is True.
Sidebar(send, text, outcome, ss) ==
    IF send
    THEN SendHandler(text, outcome, ss)
    ELSE SendResult(<< >>, << >>, ss, NotCalled, FALSE)

(***************************************************************************)
(* Selection Resolver and the artifact store's layout.                     *)
(***************************************************************************)
\* Mutant: the key is built with a separator.
FinalSelection_separated(disease, model) == disease \o "_" \o model

\* final_selection = disease_selection + model_selection
FinalSelection(disease, model) == disease \o model

RankingPath(key) == "embedding_models/" \o key \o ".csv"

GraphPath(disease) == "graphs/knowledge_graph_" \o disease \o ".html"

PerformancePath == "embedding_models/performance_metrics.csv"

RecommendationsName(key) == key \o "_recommendations.csv"

GraphName(disease) == disease \o "_knowledge_graph.html"

\* The exceptions that end a run.
NoError == [type |-> "none", at |-> ""]
FileNotFoundError(path) == [type |-> "FileNotFoundError", at |-> path]
PlotIndexError == [type |-> "IndexError", at |-> "DataFrame.plot"]
GatewayException == [type |-> "Exception", at |-> "generate_content"]

\* Mutant: a missing file is treated as present (and read as it would be).
Exists_always(path, missing) == TRUE

Exists(path, missing) == path \notin missing

\* The text of a ranking CSV, line by line: a header and the data lines.
RankingCsv(path) ==
    << "drug,score,in_clinical_trials", "Compound::" \o path \o ",0.9,no" >>

\* The text of a graph document, in chunks.
GraphDocument(path) == << "<html>", path, "</html>" >>

\* pd.read_csv of a ranking file: the header names the columns, every
\* other line is a row.
ReadRankingCsv(lines) == [columns |-> Head(lines), rows |-> Tail(lines)]

\* DataFrame.to_csv(index=False): the header line, then the rows.
ToCsv(frame) == << frame.columns >> \o frame.rows

\* pd.read_csv of the performance file: the rows get the index 0, 1, ...
ReadPerformanceCsv(rows) ==
    [i \in 1..Len(rows) |->
        [index |-> i - 1,
         final_selection |-> rows[i].final_selection,
         Measure |-> rows[i].Measure,
         Value |-> rows[i].Value]]

\* A text file handle: open(path, 'r') is at position 0; read() returns the
\* chunks from the position to the end and leaves the handle at the end.
OpenFile(path) == [path |-> path, pos |-> 0]

ReadFile(file) ==
    LET content == GraphDocument(file.path)
    IN  [data |-> SubSeq(content, file.pos + 1, Len(content)),
         file |-> [path |-> file.path, pos |-> Len(content)]]

(***************************************************************************)
(* Performance Filter:                                                     *)
(*   performance_file[performance_file['final_selection'] == key]          *)
(***************************************************************************)
\* Mutant: only the first matching row is kept.
PerformanceFilter_first(frame, key) ==
    LET Keep(row) == row.final_selection = key
        all == SelectSeq(frame, Keep)
    IN  IF all = << >> THEN << >> ELSE << Head(all) >>

PerformanceFilter(frame, key) ==
    LET Keep(row) == row.final_selection = key
    IN  SelectSeq(frame, Keep)

\* filtered_data[['Measure', 'Value']]
MeasureValue(frame) ==
    [i \in 1..Len(frame) |->
        [index |-> frame[i].index,
         Measure |-> frame[i].Measure,
         Value |-> frame[i].Value]]

(***************************************************************************)
(* More page elements.                                                     *)
(***************************************************************************)
Table(frame) == [kind |-> "table", data |-> frame]

DownloadButton(label, data, file_name, mime) ==
    [kind |-> "download_button", label |-> label, data |-> data,
     file_name |-> file_name, mime |-> mime]

HtmlComponent(source_code) == [kind |-> "html", data |-> source_code]

BarChart(frame, x) ==
    [kind |-> "pyplot",
     bars |-> [i \in 1..Len(frame) |->
                  [label |-> frame[i][x], value |-> frame[i].Value]]]

\* What a panel leaves: the elements it rendered before it ended, the
\* exception that ended it, the paths it tried to open, and the frames.
PanelResult(pg, err, paths, pf, fd) ==
    [page |-> pg, error |-> err, opened |-> paths,
     performance_file |-> pf, filtered_data |-> fd]

(***************************************************************************)
(* The steps the panels share.                                             *)
(***************************************************************************)
\* Open the disease's graph document, embed it and offer it for download.
\* The download button is given the file handle HtmlFile, which read() has
\* left at the end of the file; the button takes its data by reading the
\* handle from where it stands.
GraphStep(disease, missing) ==
    LET path == GraphPath(disease)
    IN  IF ~Exists(path, missing)
        THEN [page |-> << >>, error |-> FileNotFoundError(path)]
        ELSE LET HtmlFile == OpenFile(path)
                 read == ReadFile(HtmlFile)
                 source_code == read.data
             IN  [page |->
                    << HtmlComponent(source_code),
                       DownloadButton("Download Knowledge Graph",
                                      ReadFile(read.file).data,
                                      GraphName(disease), "text/html") >>,
                  error |-> NoError]

\* frame.plot(kind='bar', x=..., y='Value') and st.pyplot(fig).  pandas'
\* bar plot takes the first and the last tick position to set the axis
\* limits and raises IndexError on a frame with no rows.
PlotStep(frame, x) ==
    IF Len(frame) = 0
    THEN [page |-> << >>, error |-> PlotIndexError]
    ELSE [page |-> << BarChart(frame, x) >>, error |-> NoError]

(***************************************************************************)
(* The panels, one per navigation mode.                                    *)
(***************************************************************************)
RecommendationsTitle == "Get Drug Recommendations"
ExploreTitle == "Explore Knowledge Graph"

\* The body of `if st.button("Get Recommendations")`.
GetRecommendations(disease, model, missing, csv) ==
    LET final_selection == FinalSelection(disease, model)
        ranking_path == RankingPath(final_selection)
        graph_path == GraphPath(disease)
    IN  IF ~Exists(ranking_path, missing)
        THEN PanelResult(<< >>, FileNotFoundError(ranking_path),
                         << ranking_path >>, Undefined, Undefined)
        ELSE
        LET ranking_file == ReadRankingCsv(RankingCsv(ranking_path))
            ranking ==
                << Heading("Drug Recommendations"),
                   Table(ranking_file),
                   DownloadButton("Download Recommendations",
                                  ToCsv(ranking_file),
                                  RecommendationsName(final_selection),
                                  "text/csv"),
                   Heading("Direct Connections in DRKG for the Target Disease") >>
            graph == GraphStep(disease, missing)
        IN  IF graph.error # NoError
            THEN PanelResult(ranking \o graph.page, graph.error,
                             << ranking_path, graph_path >>,
                             Undefined, Undefined)
            ELSE IF ~Exists(PerformancePath, missing)
            THEN PanelResult(ranking \o graph.page,
                             FileNotFoundError(PerformancePath),
                             << ranking_path, graph_path, PerformancePath >>,
                             Undefined, Undefined)
            ELSE
            LET frame == ReadPerformanceCsv(csv)
                filtered == PerformanceFilter(frame, final_selection)
                plot == PlotStep(filtered, "Measure")
            IN  PanelResult(
                    ranking \o graph.page
                        \o << Heading("Embedding Model Performance"),
                              Table(MeasureValue(filtered)) >>
                        \o plot.page,
                    plot.error,
                    << ranking_path, graph_path, PerformancePath >>,
                    frame, filtered)

RecommendationsPanel(disease, model, get_pressed, missing, csv) ==
    IF get_pressed
    THEN LET r == GetRecommendations(disease, model, missing, csv)
         IN  PanelResult(<< Title(RecommendationsTitle) >> \o r.page, r.error,
                         r.opened, r.performance_file, r.filtered_data)
    ELSE PanelResult(<< Title(RecommendationsTitle) >>, NoError, << >>,
                     Undefined, Undefined)

ExplorePanel(disease, missing) ==
    LET graph == GraphStep(disease, missing)
    IN  PanelResult(<< Title(ExploreTitle) >> \o graph.page, graph.error,
                    << GraphPath(disease) >>, Undefined, Undefined)

MetricsPanel(missing, csv) ==
    IF ~Exists(PerformancePath, missing)
    THEN PanelResult(<< >>, FileNotFoundError(PerformancePath),
                     << PerformancePath >>, Undefined, Undefined)
    ELSE LET frame == ReadPerformanceCsv(csv)
             plot == PlotStep(frame, "final_selection")
         IN  PanelResult(<< Heading("Model Performance Metrics"),
                            Table(frame) >> \o plot.page,
                         plot.error, << PerformancePath >>, frame, Undefined)

HelpPanel ==
    PanelResult(<< Heading("Help & Documentation") >>, NoError, << >>,
                Undefined, Undefined)

\* The four `if nav == ...` blocks: exactly the block of the mode runs.
Panel(mode, disease, model, get_pressed, missing, csv) ==
    CASE mode = NavOptions[1] ->
            RecommendationsPanel(disease, model, get_pressed, missing, csv)
      [] mode = NavOptions[2] -> ExplorePanel(disease, missing)
      [] mode = NavOptions[3] -> MetricsPanel(missing, csv)
      [] mode = NavOptions[4] -> HelpPanel

(***************************************************************************)
(* One run of the script: the sidebar, then the panel.  An exception that  *)
(* escapes the sidebar ends the run before any panel.                      *)
(***************************************************************************)
RunScript(mode, disease, model, text, button, outcome, ss, missing, csv) ==
    LET side == Sidebar(button = "Send", text, outcome, ss)
        panel == IF side.raised
                 THEN PanelResult(<< >>, GatewayException, << >>,
                                  Undefined, Undefined)
                 ELSE Panel(mode, disease, model,
                            button = "Get Recommendations", missing, csv)
    IN  [session_state |-> side.session_state,
         page |-> side.page \o panel.page,
         error |-> panel.error,
         gateway_calls |-> side.calls,
         gateway_outcome |-> side.outcome,
         opened |-> panel.opened,
         performance_file |-> panel.performance_file,
         filtered_data |-> panel.filtered_data]

(***************************************************************************)
(* The deployments the model draws.                                        *)
(***************************************************************************)
\* Artifacts that a deployment may lack; every other artifact exists.
MissingCandidates ==
    { RankingPath("DengueTransE"), GraphPath("Dengue"), PerformancePath }

\* A performance table with two rows for one pair, one row for another
\* and none for the remaining pairs.
PerformanceSample ==
    << [final_selection |-> "DengueTransE", Measure |-> "MRR", Value |-> 3],
       [final_selection |-> "Yellow FeverUM", Measure |-> "MRR", Value |-> 5],
       [final_selection |-> "DengueTransE", Measure |-> "Hits@10", Value |-> 7] >>

\* The rows the tables of SpecFilter are made of.
PerformanceRows ==
    { [final_selection |-> k, Measure |-> m, Value |-> IF m = "MRR" THEN 3 ELSE 7] :
        k \in { "DengueTransE", "Yellow FeverUM" }, m \in { "MRR", "Hits@10" } }

PerformanceTables ==
    UNION { [1..n -> PerformanceRows] : n \in 0..MaxRows }

EmptyState == [k \in {} |-> << >>]

\* The widgets' defaults: the first option of each list, an empty text.
DefaultDisease(mode) ==
    IF mode \in { NavOptions[1], NavOptions[2] } THEN Diseases[1] ELSE Undefined

DefaultModel(mode) ==
    IF mode = NavOptions[1] THEN Models[1] ELSE Undefined

\* The state a run leaves.
Ran(r) ==
    /\ session_state' = r.session_state
    /\ page' = r.page
    /\ error' = r.error
    /\ gateway_calls' = r.gateway_calls
    /\ gateway_outcome' = r.gateway_outcome
    /\ opened' = r.opened
    /\ performance_file' = r.performance_file
    /\ filtered_data' = r.filtered_data

\* The session's first run: every widget at its default, no button pressed.
FirstRun(missing, csv) ==
    LET r == RunScript(NavOptions[1], Diseases[1], Models[1], "", "",
                       NotCalled, EmptyState, missing, csv)
    IN  /\ nav = NavOptions[1]
        /\ disease_selection = Diseases[1]
        /\ model_selection = Models[1]
        /\ input_text = ""
        /\ pressed = ""
        /\ send_log = << >>
        /\ missing_files = missing
        /\ performance_csv = csv
        /\ session_state = r.session_state
        /\ page = r.page
        /\ error = r.error
        /\ gateway_calls = r.gateway_calls
        /\ gateway_outcome = r.gateway_outcome
        /\ opened = r.opened
        /\ performance_file = r.performance_file
        /\ filtered_data = r.filtered_data

\* A deployment lacks at most one of the candidates.
Init ==
    \E missing \in { {} } \cup { { path } : path \in MissingCandidates } :
        FirstRun(missing, PerformanceSample)

InitFilter ==
    \E csv \in PerformanceTables : FirstRun({}, csv)

(***************************************************************************)
(* The interactions.  Each is one complete run of the script.              *)
(***************************************************************************)
\* The navigation radio changes.  The selectboxes of the panel that now
\* renders are new widgets, at their defaults.
SetNav(mode) ==
    /\ mode # nav
    /\ nav' = mode
    /\ disease_selection' = DefaultDisease(mode)
    /\ model_selection' = DefaultModel(mode)
    /\ pressed' = ""
    /\ Ran(RunScript(mode, DefaultDisease(mode), DefaultModel(mode),
                     input_text, "", NotCalled, session_state,
                     missing_files, performance_csv))
    /\ UNCHANGED << input_text, missing_files, performance_csv, send_log >>

\* The disease selectbox of the active panel changes.
SetDisease(disease) ==
    /\ nav \in { NavOptions[1], NavOptions[2] }
    /\ disease # disease_selection
    /\ disease_selection' = disease
    /\ pressed' = ""
    /\ Ran(RunScript(nav, disease, model_selection, input_text, "",
                     NotCalled, session_state, missing_files,
                     performance_csv))
    /\ UNCHANGED << nav, model_selection, input_text, missing_files,
                    performance_csv, send_log >>

\* The model selectbox changes.
SetModel(model) ==
    /\ nav = NavOptions[1]
    /\ model # model_selection
    /\ model_selection' = model
    /\ pressed' = ""
    /\ Ran(RunScript(nav, disease_selection, model, input_text, "",
                     NotCalled, session_state, missing_files,
                     performance_csv))
    /\ UNCHANGED << nav, disease_selection, input_text, missing_files,
                    performance_csv, send_log >>

\* The chat text input changes.
SetInput(text) ==
    /\ text # input_text
    /\ input_text' = text
    /\ pressed' = ""
    /\ Ran(RunScript(nav, disease_selection, model_selection, text, "",
                     NotCalled, session_state, missing_files,
                     performance_csv))
    /\ UNCHANGED << nav, disease_selection, model_selection, missing_files,
                    performance_csv, send_log >>

\* Send is pressed; the gateway, if called, does `outcome`.
PressSend(outcome) ==
    LET r == RunScript(nav, disease_selection, model_selection, input_text,
                       "Send", outcome, session_state, missing_files,
                       performance_csv)
        answered == r.gateway_calls # << >> /\ ~outcome.raises
    IN  /\ (input_text # "" /\ ~outcome.raises) => Len(send_log) < MaxTurns
        /\ pressed' = "Send"
        /\ Ran(r)
        /\ send_log' =
              IF answered
              THEN Append(send_log,
                          [input |-> input_text, response |-> outcome.text])
              ELSE send_log
        /\ UNCHANGED << nav, disease_selection, model_selection, input_text,
                        missing_files, performance_csv >>

\* Get Recommendations is pressed.
PressGetRecommendations ==
    /\ nav = NavOptions[1]
    /\ pressed' = "Get Recommendations"
    /\ Ran(RunScript(nav, disease_selection, model_selection, input_text,
                     "Get Recommendations", NotCalled, session_state,
                     missing_files, performance_csv))
    /\ UNCHANGED << nav, disease_selection, model_selection, input_text,
                    missing_files, performance_csv, send_log >>

Next ==
    \/ \E mode \in Range(NavOptions) : SetNav(mode)
    \/ \E disease \in Range(Diseases) : SetDisease(disease)
    \/ \E model \in Range(Models) : SetModel(model)
    \/ \E text \in ChatInputs : SetInput(text)
    \/ \E outcome \in GatewayOutcomes : PressSend(outcome)
    \/ PressGetRecommendations

Spec == Init /\ [][Next]_vars

\* The recommendations panel alone, over every small performance table.
NextFilter ==
    \/ \E disease \in Range(Diseases) : SetDisease(disease)
    \/ \E model \in Range(Models) : SetModel(model)
    \/ PressGetRecommendations

SpecFilter == InitFilter /\ [][NextFilter]_vars

(***************************************************************************)
(* What the claims read from a state.                                      *)
(***************************************************************************)
Log == ChatHistory(session_state)

HasText(kind, text) ==
    \E i \in 1..Len(page) : page[i].kind = kind /\ page[i].text = text

HasKind(kind) == \E i \in 1..Len(page) : page[i].kind = kind

IsPrefix(s, t) == Len(s) <= Len(t) /\ SubSeq(t, 1, Len(s)) = s

\* The Send interactions whose response was not empty.
Successful ==
    LET NonEmpty(e) == e.response # ""
    IN  SelectSeq(send_log, NonEmpty)

\* The log that a sequence of answered interactions should leave.
TurnsOf(log) ==
    [i \in 1..(2 * Len(log)) |->
        IF i % 2 = 1
        THEN << "You", log[(i + 1) \div 2].input >>
        ELSE << "Bot", log[i \div 2].response >>]

GetPressed == pressed = "Get Recommendations"

SendPressed == pressed = "Send"

\* C1 (as amended): after any interactions of which N were Send presses with
\* a non-empty input that the gateway answered with a non-empty text, the
\* chat log holds exactly 2N entries, (You, k-th such input) followed by
\* (Bot, its response), in the order of the interactions; and no step removes
\* or reorders an entry of the log.
C1_ChatLogOrdering ==
    /\ [](Log = TurnsOf(Successful))
    /\ [][IsPrefix(Log, ChatHistory(session_state'))]_vars

\* C1 witness: two successful interactions with different inputs.
C1_TwoTurns ==
    /\ Len(Successful) = 2
    /\ Successful[1].input # Successful[2].input
    /\ Len(Log) = 4

\* C1 (as claimed): every Send with a non-empty input to which the gateway
\* returned a response, whatever its text, counts among the N interactions
\* that the 2N entries of the log record.
C1_EveryReturnLogged ==
    /\ [](Log = TurnsOf(send_log))
    /\ [][IsPrefix(Log, ChatHistory(session_state'))]_vars

\* The panel of the active mode was entered: its first element is on the
\* page, or the load that precedes it raised.
PanelEntered ==
    CASE nav = NavOptions[1] -> HasText("title", RecommendationsTitle)
      [] nav = NavOptions[2] -> HasText("title", ExploreTitle)
      [] nav = NavOptions[3] ->
            \/ HasText("heading", "Model Performance Metrics")
            \/ error = FileNotFoundError(PerformancePath)
      [] nav = NavOptions[4] -> HasText("heading", "Help & Documentation")

GatewayRaised == SendPressed /\ input_text # "" /\ gateway_outcome.raises

\* C2: when Send is pressed with a non-empty input and the gateway call
\* raises, the exception is caught (it is not what ends the run), the page
\* shows the communication error and then the no-response error, the log
\* gets no entry for the interaction, the gateway was called exactly once,
\* and the run goes on to the panel of the active navigation mode.
C2_ChatFailureHandled ==
    GatewayRaised =>
        /\ error # GatewayException
        /\ Len(page) >= 2
        /\ page[1] = StError(CommunicationError)
        /\ page[2] = StError(NoResponseError)
        /\ ~HasKind("chatbot-response")
        /\ gateway_calls = << input_text >>
        /\ Log = TurnsOf(Successful)
        /\ PanelEntered

\* C2 witness: the gateway raised while the Explore panel was active.
C2_RaisedInExplore == GatewayRaised /\ nav = NavOptions[2] /\ error = NoError

\* C3: Send with an empty input calls the gateway not at all and shows the
\* "please enter a question" message; a run calls the gateway only when
\* Send is pressed with a non-empty input.
C3_EmptyInputNoCall ==
    /\ (SendPressed /\ input_text = "") =>
          /\ gateway_calls = << >>
          /\ gateway_outcome = NotCalled
          /\ page[1] = StError(EmptyInputError)
          /\ ~HasText("st.error", NoResponseError)
    /\ gateway_calls # << >> => (SendPressed /\ input_text # "")

\* C3 witness: Send pressed on an empty input.
C3_EmptySend == SendPressed /\ input_text = "" /\ HasText("st.error", EmptyInputError)

\* The selected pair's artifacts.
SelectedKey == disease_selection \o model_selection

RankingExists == ("embedding_models/" \o SelectedKey \o ".csv") \notin missing_files

GraphExists ==
    ("graphs/knowledge_graph_" \o disease_selection \o ".html") \notin missing_files

PerformanceExists == PerformancePath \notin missing_files

MatchingRows ==
    { i \in 1..Len(performance_csv) :
        performance_csv[i].final_selection = SelectedKey }

\* C4 (as claimed): Get Recommendations for a pair whose ranking CSV and
\* graph exist and whose key is in no row of the performance table renders
\* an empty performance table and ends without any error, the bar-chart step
\* included.
C4_NoRowsNoError ==
    (GetPressed /\ RankingExists /\ GraphExists /\ PerformanceExists
        /\ MatchingRows = {}) =>
        /\ filtered_data = << >>
        /\ \E i \in 1..Len(page) :
              page[i].kind = "table" /\ page[i].data = << >>
        /\ error = NoError

\* The Download Knowledge Graph buttons on the page.
GraphButtons ==
    { i \in 1..Len(page) :
        page[i].kind = "download_button"
            /\ page[i].label = "Download Knowledge Graph" }

\* C5 (as claimed): wherever the graph of a disease is rendered, in the
\* Explore panel or after Get Recommendations, the Download Knowledge Graph
\* button offers the full graph document, the content that was embedded, as
\* <Disease>_knowledge_graph.html.
C5_DownloadIsDocument ==
    \A i \in GraphButtons :
        /\ page[i].data =
              GraphDocument("graphs/knowledge_graph_" \o disease_selection \o ".html")
        /\ page[i - 1].kind = "html"
        /\ page[i].data = page[i - 1].data
        /\ page[i].file_name = disease_selection \o "_knowledge_graph.html"

\* C6: the prompts a run sends to the gateway are the current chat input and
\* nothing else: one request, equal to the input, whatever the chat log, the
\* navigation mode and the selections are.
C6_PromptIsInput ==
    /\ \A i \in 1..Len(gateway_calls) : gateway_calls[i] = input_text
    /\ Len(gateway_calls) <= 1
    /\ (SendPressed /\ input_text # "") => gateway_calls = << input_text >>

\* C6 witness: a request sent from a session whose log already held a turn.
C6_SentWithHistory ==
    /\ SendPressed
    /\ gateway_calls = << input_text >>
    /\ Len(Log) = 4
    /\ Len(send_log) = 2
    /\ nav # NavOptions[1]

\* The elements of the page from position n on.
PageFrom(n) == SubSeq(page, n, Len(page))

\* Where the panel's part of the page starts: after the sidebar's elements.
PanelStart ==
    1 + Cardinality({ i \in 1..Len(page) :
            page[i].kind \in { "st.error", "chatbot-response" } })

PanelPage == PageFrom(PanelStart)

RankingHeading == Heading("Drug Recommendations")
PerformanceHeading == Heading("Embedding Model Performance")

\* C7: a load of a missing artifact raises a file-access error that ends
\* the run at that step.  A missing ranking CSV leaves the recommendations
\* panel with its title alone (no ranking table, download, graph,
\* performance table or chart); a missing graph, after Get Recommendations,
\* leaves the ranking part and nothing of the graph, performance table or
\* chart; in the Explore panel it leaves the title alone.
C7_MissingArtifactEndsRun ==
    /\ (GetPressed /\ ~RankingExists) =>
          /\ error = FileNotFoundError("embedding_models/" \o SelectedKey \o ".csv")
          /\ PanelPage = << Title(RecommendationsTitle) >>
          /\ opened = << "embedding_models/" \o SelectedKey \o ".csv" >>
    /\ (GetPressed /\ RankingExists /\ ~GraphExists) =>
          /\ error = FileNotFoundError(
                        "graphs/knowledge_graph_" \o disease_selection \o ".html")
          /\ Len(PanelPage) = 5
          /\ PanelPage[2] = RankingHeading
          /\ PanelPage[3].kind = "table"
          /\ PanelPage[4].kind = "download_button"
          /\ PanelPage[4].label = "Download Recommendations"
          /\ ~HasKind("html")
          /\ GraphButtons = {}
          /\ ~HasKind("pyplot")
          /\ ~HasText("heading", "Embedding Model Performance")
    /\ (nav = NavOptions[2] /\ ~GraphExists) =>
          /\ error = FileNotFoundError(
                        "graphs/knowledge_graph_" \o disease_selection \o ".html")
          /\ PanelPage = << Title(ExploreTitle) >>

\* C7 witness: Get Recommendations for the pair whose ranking CSV is missing.
C7_MissingRanking ==
    /\ GetPressed
    /\ ~RankingExists
    /\ error.type = "FileNotFoundError"
    /\ SelectedKey = "DengueTransE"

\* C8: the filtered frame holds exactly the rows of the performance table
\* whose final_selection is the key: every row of it is a row of the table
\* with that key, every such row of the table is in it once, and the rows
\* keep the table's order; the table itself is as it was loaded.
C8_FilterExact ==
    (GetPressed /\ RankingExists /\ GraphExists /\ PerformanceExists) =>
        /\ performance_file = ReadPerformanceCsv(performance_csv)
        /\ \A i \in 1..Len(filtered_data) :
              /\ filtered_data[i].final_selection = SelectedKey
              /\ filtered_data[i].index + 1 \in 1..Len(performance_file)
              /\ filtered_data[i] = performance_file[filtered_data[i].index + 1]
        /\ \A i, j \in 1..Len(filtered_data) :
              i < j => filtered_data[i].index < filtered_data[j].index
        /\ \A k \in MatchingRows :
              \E i \in 1..Len(filtered_data) : filtered_data[i].index = k - 1
        /\ Len(filtered_data) = Cardinality(MatchingRows)

\* C8 witness: a key present in exactly one row of a table of two rows.
C8_OneRowOfTwo ==
    /\ GetPressed
    /\ Len(performance_csv) = 2
    /\ Cardinality(MatchingRows) = 1
    /\ MatchingRows = { 2 }
    /\ Len(filtered_data) = 1

\* C9: for every selectable pair the key is the disease followed by the
\* model, nothing between and nothing changed; that key names the ranking
\* file that is loaded first, whether it exists or not, names the download,
\* and is what final_selection is compared with.
C9_KeyIsConcatenation ==
    GetPressed =>
          /\ Len(opened) >= 1
          /\ opened[1] = "embedding_models/" \o disease_selection
                            \o model_selection \o ".csv"
          /\ Len(opened[1]) =
                Len("embedding_models/") + Len(disease_selection)
                    + Len(model_selection) + Len(".csv")
          /\ error.type \in { "none", "FileNotFoundError", "IndexError" }
          /\ ~RankingExists => error.type = "FileNotFoundError"
          /\ RankingExists =>
                /\ PanelPage[4].kind = "download_button"
                /\ PanelPage[4].file_name =
                      disease_selection \o model_selection
                          \o "_recommendations.csv"
          /\ (RankingExists /\ GraphExists /\ PerformanceExists) =>
                /\ Len(filtered_data) = Cardinality(MatchingRows)
                /\ \A i \in 1..Len(filtered_data) :
                      filtered_data[i].final_selection =
                          disease_selection \o model_selection

\* C9 witness: the pair whose disease name holds a space, with its one row.
C9_YellowFeverUM ==
    /\ GetPressed
    /\ disease_selection = "Yellow Fever"
    /\ model_selection = "UM"
    /\ opened[1] = "embedding_models/Yellow FeverUM.csv"
    /\ error = NoError
    /\ Len(filtered_data) = 1

\* The gateway answered the last run's Send with a non-empty text.
AnsweredNonEmpty ==
    /\ SendPressed
    /\ input_text # ""
    /\ ~gateway_outcome.raises
    /\ gateway_outcome.text # ""
    /\ gateway_outcome.text # None

\* C10: a run changes st.session_state only if Send was pressed with a
\* non-empty input and the gateway returned a non-empty text; so the log's
\* length is even in every state.
C10_LogFrame ==
    /\ [](Len(Log) % 2 = 0)
    /\ [][session_state' # session_state => AnsweredNonEmpty']_vars

\* C10 witness: the gateway returned an empty text to a session that has a
\* turn in its log, and the log still holds that turn alone.
C10_EmptyTextKeepsLog ==
    /\ SendPressed
    /\ input_text # ""
    /\ gateway_outcome = [raises |-> FALSE, text |-> ""]
    /\ Len(Log) = 2
    /\ Len(send_log) = 2
    /\ HasText("st.error", NoResponseError)

=============================================================================
